---- MODULE Spec2Model ----
\* Model of the MCP backend: the connection registry (connection_store.py), the
\* protocol correlation layer (mcp_protocol.py) and the websocket endpoint,
\* session initializer and chat loop (main.py).
\*
\* The program runs on one asyncio event loop: a coroutine runs without
\* interruption from one suspension point (await) to the next, so every action
\* below is the code between two suspension points of one task.
EXTENDS Integers, Sequences, FiniteSets, TLC

\* ---------------------------------------------------------------- bounds
NumWs == 2          \* websocket endpoint invocations (transports)
NumChats == 2       \* chat requests
MaxIds == 3         \* send_request calls overall
MaxFrames == 2      \* frames the remotes write overall
MaxInbox == 1       \* frames buffered unread on one transport
MaxCalls == 2       \* tool calls the decision function asks for at once
MaxReconnects == 1  \* endpoints that take the place of an ended one

W == 1..NumWs
Chats == 1..NumChats
Ids == 1..MaxIds
Users == {"u1", "u2"}

None == "None"
Absent == "absent"
NoId == -1          \* a message without an "id" key
EmptyObj == "{}"
EmptyList == "[]"
Vals == {"r1"}

VARIABLES
    active_connections, \* connection_store.active_connections: user_id -> the
                        \* MCPConnection object made by endpoint w (0: no entry)
    conn,               \* the MCPConnection objects, one per add_connection call
    pending_requests,   \* mcp_handler.pending_requests: request_id -> future
    calls,              \* the send_request invocations, by request_id
    nextId,             \* the next fresh uuid
    ws,                 \* the websocket_endpoint tasks
    open,               \* the transport of w is connected
    inbox,              \* frames written by the remote of w, not yet received
    frames,             \* number of frames written by the remotes
    delivered,          \* per request_id, the first message with that id that
                        \* the read loops passed to handle_response, and
                        \* (via) the endpoint whose read loop it was when
                        \* the message resolved or rejected a future
    crashes,            \* exceptions that escaped websocket_endpoint, per w
    chat,               \* the handle_chat tasks
    response            \* the HTTP response to the chat request answered last

vars == <<active_connections, conn, pending_requests, calls, nextId, ws, open,
          inbox, frames, delivered, crashes, chat, response>>

\* The names of the transports, chat requests and users carry no meaning: they
\* are taken into use in the order of their names.
Used(u) == (\E w \in W : ws[w].user_id = u) \/ (\E c \in Chats : chat[c].user_id = u)
FirstUse(u) == u = "u2" => Used("u1")

\* ------------------------------------------------------- connection_store
NoEntry == 0

MCPConnection(w, u) ==
    [websocket |-> w, user_id |-> u, available_tools |-> EmptyList,
     session_initialized |-> FALSE]

\* (mutant) a connection that replaces an entry takes over its catalog and
\* its ready flag.
add_connection_merged(user_id, w) ==
    /\ active_connections' = [active_connections EXCEPT ![user_id] = w]
    /\ conn' = [conn EXCEPT ![w] =
            IF active_connections[user_id] = NoEntry
            THEN [websocket |-> w, user_id |-> user_id,
                  available_tools |-> EmptyList, session_initialized |-> FALSE]
            ELSE [conn[active_connections[user_id]] EXCEPT !.websocket = w]]

add_connection(user_id, w) ==
    /\ active_connections' = [active_connections EXCEPT ![user_id] = w]
    /\ conn' = [conn EXCEPT ![w] = MCPConnection(w, user_id)]

get_connection(user_id) == active_connections[user_id]

remove_connection(user_id) ==
    [active_connections EXCEPT ![user_id] = NoEntry]

update_tools(c, user_id, tools) ==
    IF active_connections[user_id] # NoEntry
    THEN [c EXCEPT ![active_connections[user_id]].available_tools = tools]
    ELSE c

mark_initialized(c, user_id) ==
    IF active_connections[user_id] # NoEntry
    THEN [c EXCEPT ![active_connections[user_id]].session_initialized = TRUE]
    ELSE c

\* ----------------------------------------------------------- mcp_protocol
Future(state, value) == [state |-> state, value |-> value]

Put(d, k, v) == [x \in DOMAIN d \cup {k} |-> IF x = k THEN v ELSE d[x]]
Del(d, k) == [x \in DOMAIN d \ {k} |-> d[x]]

\* message.get("result", {})
Result(message) ==
    IF message.result = Absent THEN EmptyObj ELSE message.result

\* Exception(f"MCP Error: {message['error']}")
MCPError(message) ==
    IF message.error = "e1" THEN "MCP Error: e1" ELSE "MCP Error: e2"

\* Exception(f"MCP request {method} timed out")
TimedOut(method) ==
    CASE method = "initialize" -> "MCP request initialize timed out"
      [] method = "tools/list" -> "MCP request tools/list timed out"
      [] OTHER -> "MCP request tools/call timed out"

\* (mutant) responses are matched to the oldest pending request, not by id.
LookupOldest(message) ==
    IF message.id \in DOMAIN pending_requests
    THEN CHOOSE i \in DOMAIN pending_requests :
            \A j \in DOMAIN pending_requests : i <= j
    ELSE message.id

\* The future handle_response looks up: the one stored under the message's id.
Lookup(message) == message.id

\* (mutant) handle_response without the membership test: a message whose id is
\* not pending raises KeyError.
handle_response_unchecked(message) ==
    LET request_id == message.id IN
    IF request_id # 0
    THEN IF request_id \notin DOMAIN pending_requests
         THEN [raised |-> "KeyError", pending |-> pending_requests]
         ELSE IF pending_requests[request_id].state # "pending"
         THEN [raised |-> "InvalidStateError", pending |-> pending_requests]
         ELSE [raised |-> None,
               pending |-> [pending_requests EXCEPT ![request_id] =
                    IF message.error # Absent
                    THEN [state |-> "exception",
                          value |-> IF message.error = "e1" THEN "MCP Error: e1"
                                    ELSE "MCP Error: e2"]
                    ELSE [state |-> "result",
                          value |-> IF message.result = Absent THEN EmptyObj
                                    ELSE message.result]]]
    ELSE [raised |-> None, pending |-> pending_requests]

\* handle_response(message): the new pending_requests, and the exception it
\* raises. future.set_result / set_exception on a future that is already done
\* raises asyncio.InvalidStateError. The entry stays in the dict: only the
\* sender's finally clause deletes it.
handle_response(message) ==
    LET request_id == Lookup(message) IN
    IF request_id # 0 /\ request_id \in DOMAIN pending_requests
    THEN IF pending_requests[request_id].state # "pending"
         THEN [raised |-> "InvalidStateError", pending |-> pending_requests]
         ELSE IF message.error # Absent
              THEN [raised |-> None,
                    pending |-> [pending_requests EXCEPT ![request_id] =
                                    Future("exception", MCPError(message))]]
              ELSE [raised |-> None,
                    pending |-> [pending_requests EXCEPT ![request_id] =
                                    Future("result", Result(message))]]
    ELSE [raised |-> None, pending |-> pending_requests]

\* The params of a request: tools/call carries {name, arguments}; initialize
\* carries the protocol version, capabilities and client info; tools/list none.
\* (mutant) the tool's name and its arguments change places.
ParamsSwapped(name, arguments) == [name |-> arguments, arguments |-> name]

Params(name, arguments) == [name |-> name, arguments |-> arguments]
NoParams == Params(None, None)
InitializeParams == Params("backend-server", "2024-11-05")

\* websocket.send_text: on a connected transport it succeeds; on a transport
\* that is no longer connected it raises or drops the text, with the server
\* library in use.
SendTextOutcomes(w) == IF open[w] THEN {TRUE} ELSE {TRUE, FALSE}

\* send_request up to its suspension in wait_for: a fresh id, the future stored
\* in pending_requests, the envelope written. `sent` FALSE: send_text raised,
\* before the try block is entered, and the exception leaves send_request.
\* pend and cls are pending_requests and calls as the caller has left them.
Issue(pend, cls, w, method, params, sent) ==
    /\ nextId <= MaxIds
    /\ pending_requests' = Put(pend, nextId, Future("pending", None))
    /\ calls' = [cls EXCEPT ![nextId] =
                    [websocket |-> w, method |-> method, params |-> params,
                     status |-> IF sent THEN "waiting" ELSE "send_failed",
                     ret |-> IF sent THEN None ELSE "send_text failed"]]
    /\ nextId' = nextId + 1

NoCall ==
    [websocket |-> 0, method |-> None, params |-> NoParams, status |-> "unused",
     ret |-> None]

\* The finally clause of send_request.
Finally(id) ==
    IF id \in DOMAIN pending_requests THEN Del(pending_requests, id)
    ELSE pending_requests

\* wait_for returns: the future is done, the caller resumes.
CanResume(id) ==
    /\ calls[id].status = "waiting"
    /\ id \in DOMAIN pending_requests
    /\ pending_requests[id].state # "pending"

Resumed(id) ==
    [calls[id] EXCEPT
        !.status = IF pending_requests[id].state = "result"
                   THEN "returned" ELSE "raised",
        !.ret = pending_requests[id].value]

Waiting(id) ==
    /\ calls[id].status = "waiting"
    /\ id \in DOMAIN pending_requests
    /\ pending_requests[id].state = "pending"

\* (mutant) send_request waits for its future without a timeout.
NeverTimesOut(id) == FALSE

\* wait_for(future, timeout=30.0): the timeout of a call can fire as long as
\* its future is not done. The 30 seconds run from the moment send_text has
\* returned, which a slow transport delays, so the timeouts of calls on
\* different transports fire in any order.
CanTimeOut(id) == Waiting(id)

Expired(id) ==
    [calls[id] EXCEPT !.status = "timeout", !.ret = TimedOut(calls[id].method)]

\* ------------------------------------------------------------------ frames
\* The text frames a remote can write: text that is no JSON, a JSON number, a
\* JSON string without the letters "id", and JSON objects: a notification (no
\* "id" key) or a response. via is 0 unless a read loop has read the frame
\* and the frame has resolved or rejected a future.
Frame(kind, id, error, result) ==
    [kind |-> kind, id |-> id, error |-> error, result |-> result, via |-> 0]

NoFrame == Frame("none", NoId, Absent, Absent)

JunkFrames ==
    { Frame(k, NoId, Absent, Absent) : k \in {"badjson", "number", "string", "object"} }

\* The ids a remote can echo: the empty id, and the ids it has been sent.
KnownIds == {0} \cup { i \in Ids : calls[i].status \notin {"unused", "send_failed"} }

ResponseFrames ==
    { Frame("object", i, Absent, r) : i \in KnownIds \ {0}, r \in Vals \cup {Absent} }
    \cup { Frame("object", i, "e1", Absent) : i \in KnownIds \ {0} }
    \cup { Frame("object", 0, Absent, Absent) }

\* ------------------------------------------------------ websocket_endpoint
\* A remote connects to /ws/{user_id}; await websocket.accept().
Accept(w, u) ==
    /\ ws[w].pc = "idle"
    /\ \A v \in 1..(w - 1) : ws[v].pc # "idle"
    /\ FirstUse(u)
    /\ ws' = [ws EXCEPT ![w].pc = "accepted", ![w].user_id = u]
    /\ open' = [open EXCEPT ![w] = TRUE]
    /\ UNCHANGED <<active_connections, conn, pending_requests, calls, nextId,
                   inbox, frames, delivered, crashes, chat, response>>

\* add_connection, then initialize_mcp_session up to the wait for the answer
\* to "initialize". The read loop is entered only after initialize_mcp_session
\* has returned.
Register(w) ==
    /\ ws[w].pc = "accepted"
    /\ add_connection(ws[w].user_id, w)
    /\ \E sent \in SendTextOutcomes(w) :
        /\ Issue(pending_requests, calls, w, "initialize", InitializeParams, sent)
        /\ ws' = [ws EXCEPT ![w].pc = IF sent THEN "initialize" ELSE "reading",
                            ![w].call = nextId,
                            ![w].handshake = IF sent THEN "running" ELSE "failed"]
    /\ UNCHANGED <<open, inbox, frames, delivered, crashes, chat, response>>

\* The "initialize" call returns a result: "tools/list" is sent on the
\* websocket of the connection object fetched at the start.
InitializeReturns(w) ==
    /\ ws[w].pc = "initialize"
    /\ CanResume(ws[w].call)
    /\ pending_requests[ws[w].call].state = "result"
    /\ \E sent \in SendTextOutcomes(w) :
        LET id == ws[w].call IN
        /\ Issue(Finally(id), [calls EXCEPT ![id] = Resumed(id)],
                 w, "tools/list", NoParams, sent)
        /\ ws' = [ws EXCEPT ![w].pc = IF sent THEN "tools/list" ELSE "reading",
                            ![w].call = nextId,
                            ![w].handshake = IF sent THEN "running" ELSE "failed"]
    /\ UNCHANGED <<active_connections, conn, open, inbox, frames, delivered, crashes, chat, response>>

\* A handshake call raises (error response): except Exception prints, and the
\* endpoint goes on to its read loop.
HandshakeRaises(w) ==
    /\ ws[w].pc \in {"initialize", "tools/list"}
    /\ CanResume(ws[w].call)
    /\ pending_requests[ws[w].call].state = "exception"
    /\ pending_requests' = Finally(ws[w].call)
    /\ calls' = [calls EXCEPT ![ws[w].call] = Resumed(ws[w].call)]
    /\ ws' = [ws EXCEPT ![w].pc = "reading", ![w].handshake = "failed"]
    /\ UNCHANGED <<active_connections, conn, nextId, open, inbox, frames,
                   delivered, crashes, chat, response>>

\* A handshake call times out.
HandshakeTimeout(w) ==
    /\ ws[w].pc \in {"initialize", "tools/list"}
    /\ CanTimeOut(ws[w].call)
    /\ pending_requests' = Finally(ws[w].call)
    /\ calls' = [calls EXCEPT ![ws[w].call] = Expired(ws[w].call)]
    /\ ws' = [ws EXCEPT ![w].pc = "reading", ![w].handshake = "failed"]
    /\ UNCHANGED <<active_connections, conn, nextId, open, inbox, frames,
                   delivered, crashes, chat, response>>

\* tools_response.get("tools", [])
ToolsOf(result) ==
    CASE result = "r1" -> "tools of r1"
      [] result = "r2" -> "tools of r2"
      [] OTHER -> EmptyList

\* The "tools/list" call returns: update_tools and mark_initialized, both by
\* user_id, then the read loop.
ToolsListReturns(w) ==
    /\ ws[w].pc = "tools/list"
    /\ CanResume(ws[w].call)
    /\ pending_requests[ws[w].call].state = "result"
    /\ LET id == ws[w].call
           tools == ToolsOf(pending_requests[id].value) IN
        /\ pending_requests' = Finally(id)
        /\ calls' = [calls EXCEPT ![id] = Resumed(id)]
        /\ conn' = mark_initialized(update_tools(conn, ws[w].user_id, tools),
                                    ws[w].user_id)
        /\ ws' = [ws EXCEPT ![w].pc = "reading", ![w].handshake = "done"]
    /\ UNCHANGED <<active_connections, nextId, open, inbox, frames, delivered,
                   crashes, chat, response>>

\* What one pass of the read loop's body does with a frame: "raise" with the
\* exception that leaves the loop, or "continue".
\*   json.loads fails          -> JSONDecodeError, caught, printed
\*   "id" in <number>          -> TypeError, not caught
\*   "id" in <string>          -> False here: printed as a notification
\*   "id" in <object>          -> handle_response, or printed as notification
Dispatch(m) ==
    CASE m.kind = "badjson" -> [raised |-> None, pending |-> pending_requests]
      [] m.kind = "number" -> [raised |-> "TypeError", pending |-> pending_requests]
      [] m.kind = "string" -> [raised |-> None, pending |-> pending_requests]
      [] m.kind = "object" /\ m.id = NoId ->
            [raised |-> None, pending |-> pending_requests]
      [] OTHER -> handle_response(m)

\* The read loop of w handles frame m. An exception other than
\* WebSocketDisconnect leaves websocket_endpoint: the task ends, the server
\* closes the transport, and remove_connection is not called.
Handle(w, m) ==
    LET r == Dispatch(m) IN
    /\ pending_requests' = r.pending
    /\ delivered' = IF m.kind = "object" /\ m.id \in Ids
                            /\ delivered[m.id] = NoFrame
                    THEN [delivered EXCEPT ![m.id] =
                            [m EXCEPT !.via = IF r.pending # pending_requests
                                              THEN w ELSE 0]]
                    ELSE delivered
    /\ IF r.raised = None
       THEN UNCHANGED <<ws, open, crashes>>
       ELSE /\ ws' = [ws EXCEPT ![w].pc = "crashed"]
            /\ open' = [open EXCEPT ![w] = FALSE]
            /\ crashes' = [crashes EXCEPT ![w] = r.raised]

\* The read loop starts or goes on with a frame that was buffered while the
\* endpoint was busy with the handshake.
Receive(w) ==
    /\ ws[w].pc = "reading"
    /\ inbox[w] # <<>>
    /\ Handle(w, Head(inbox[w]))
    /\ inbox' = [inbox EXCEPT ![w] = Tail(inbox[w])]
    /\ UNCHANGED <<active_connections, conn, calls, nextId, frames, chat, response>>

\* receive_text raises WebSocketDisconnect: remove_connection(user_id).
Disconnect(w) ==
    /\ ws[w].pc = "reading"
    /\ inbox[w] = <<>>
    /\ ~open[w]
    /\ active_connections' = remove_connection(ws[w].user_id)
    /\ ws' = [ws EXCEPT ![w].pc = "disconnected"]
    /\ UNCHANGED <<conn, pending_requests, calls, nextId, open, inbox, frames,
                   delivered, crashes, chat, response>>

\* ------------------------------------------------------------ handle_chat
NoChat ==
    [pc |-> "idle", user_id |-> None, connection |-> NoEntry,
     conversation_history |-> None, llm_type |-> None, tool_calls |-> <<>>,
     k |-> 0, tool_results |-> <<>>, call |-> 0]

\* A chat request that has been answered keeps nothing.
Finished == [NoChat EXCEPT !.pc = "finished"]

\* The HTTP response of chat request c. status 200: the dict handle_chat
\* returns (tools_used is None on the direct answer); 404, 400, 500 with a
\* detail: the HTTPException it raises; 500 with an exception: what the server
\* answers when an exception leaves handle_chat. llm counts the calls of
\* get_llm_response_with_tools the request has made, llm_input holds the
\* arguments of the last of them and llm_response what it returned.
LLMInput(query, available_tools, conversation_history, tool_results) ==
    [query |-> query, available_tools |-> available_tools,
     conversation_history |-> conversation_history,
     tool_results |-> tool_results]

NoInput == LLMInput(None, None, None, <<>>)

\* What get_llm_response_with_tools does: it raises (the HTTP call or the
\* indexing of its answer fails), or returns {"type": "text", "content"}, or
\* returns {"type": "tool_use", "tool_calls", "raw_response"}, which has no
\* "content" key.
LLMRaises == [type |-> "raise", content |-> None, tool_calls |-> <<>>]
LLMText(content) == [type |-> "text", content |-> content, tool_calls |-> <<>>]
LLMToolUse(tool_calls) ==
    [type |-> "tool_use", content |-> None, tool_calls |-> tool_calls]

NoResponse ==
    [chat |-> 0, user_id |-> None, status |-> 0, detail |-> None,
     exception |-> None, response |-> None, tools_used |-> None,
     tool_results |-> <<>>, llm |-> 0, llm_input |-> NoInput,
     llm_response |-> LLMRaises]

HTTPException(c, u, status, detail, llm) ==
    [NoResponse EXCEPT !.chat = c, !.user_id = u, !.status = status,
                       !.detail = detail, !.llm = llm]

\* The tool calls the decision function can ask for.
ToolCall(i) ==
    [tool_name |-> IF i = 1 THEN "search" ELSE "fetch",
     tool_args |-> IF i = 1 THEN "q=x" ELSE "url=y",
     reasoning |-> IF i = 1 THEN "look it up" ELSE "read it"]

ToolCallLists == { [i \in 1..n |-> ToolCall(i)] : n \in 1..MaxCalls }

\* req.query and req.conversation_history of a chat request, and the query
\* handle_chat passes to the second get_llm_response_with_tools call.
Query == "query"
Histories == {"h1", "h2"}
AllToolsExecuted == "All tools have been executed."

\* The outcomes of the first and of the second get_llm_response_with_tools
\* call.
DecideOutcomes(lists) ==
    {LLMRaises, LLMText("hello")} \cup { LLMToolUse(l) : l \in lists }

SynthesizeOutcomes ==
    {LLMRaises, LLMText("answer"), LLMToolUse(<<ToolCall(1)>>)}

\* (mutant) handle_chat takes the tool branch whatever the type.
IsToolUseAlways(llm_response) == TRUE

\* if llm_response["type"] == "tool_use"
IsToolUse(llm_response) == llm_response.type = "tool_use"

\* result.get("content", [])
ContentOf(result) ==
    CASE result = "r1" -> "content of r1"
      [] OTHER -> EmptyList

\* Exception(f"Tool execution failed: {str(e)}")
ToolExecutionFailed(e) ==
    CASE e = "MCP Error: e1" -> "Tool execution failed: MCP Error: e1"
      [] e = "MCP request tools/call timed out" ->
            "Tool execution failed: MCP request tools/call timed out"
      [] OTHER -> "Tool execution failed: send_text failed"

\* The entries appended to tool_results: the result, or f"Error: {str(e)}".
ToolResult(call, content) ==
    [tool_name |-> call.tool_name, result |-> [error |-> FALSE, text |-> content],
     reasoning |-> call.reasoning]

\* (mutant) a failed call is recorded like a result, without the "Error: "
\* prefix.
ToolErrorUnmarked(call, e) ==
    [tool_name |-> call.tool_name, result |-> [error |-> FALSE, text |-> e],
     reasoning |-> call.reasoning]

ToolError(call, e) ==
    [tool_name |-> call.tool_name, result |-> [error |-> TRUE, text |-> e],
     reasoning |-> call.reasoning]

\* (mutant) handle_chat without the session_initialized check.
ChatPreconditionNoReady(user_id) ==
    IF get_connection(user_id) = NoEntry THEN 404 ELSE 0

\* The precondition checks of handle_chat: the HTTP status it fails with, 0
\* when it goes on.
ChatPrecondition(user_id) ==
    IF get_connection(user_id) = NoEntry THEN 404
    ELSE IF ~conn[get_connection(user_id)].session_initialized THEN 400
    ELSE 0

Detail(status) ==
    CASE status = 404 -> "MCP connection not found"
      [] status = 400 -> "MCP session not initialized"
      [] OTHER -> "LLM error"

\* POST /chat: the lookups, then the first get_llm_response_with_tools call
\* is awaited.
ChatStart(c, u) ==
    /\ chat[c].pc = "idle"
    /\ \A d \in 1..(c - 1) : chat[d].pc # "idle"
    /\ FirstUse(u)
    /\ LET status == ChatPrecondition(u) IN
        IF status # 0
        THEN /\ chat' = [chat EXCEPT ![c] = Finished]
             /\ response' = HTTPException(c, u, status, Detail(status), 0)
        ELSE /\ \E h \in Histories :
                    chat' = [chat EXCEPT ![c].pc = "decide", ![c].user_id = u,
                                         ![c].connection = get_connection(u),
                                         ![c].conversation_history = h]
             /\ UNCHANGED response
    /\ UNCHANGED <<active_connections, conn, pending_requests, calls, nextId,
                   ws, open, inbox, frames, delivered, crashes>>

\* (mutant) the tool calls are started together: with two calls to make, both
\* requests are written before the first is waited for.
ExecuteEager(c, ch, pend, cls) ==
    LET n == Len(ch.tool_calls)
        e == get_connection(ch.user_id) IN
    IF ch.k > n
    THEN /\ chat' = [chat EXCEPT ![c] = [ch EXCEPT !.pc = "synthesize"]]
         /\ pending_requests' = pend
         /\ calls' = cls
         /\ UNCHANGED nextId
    ELSE IF e = NoEntry
    THEN /\ chat' = [chat EXCEPT ![c] = [ch EXCEPT
                !.pc = "synthesize", !.k = n + 1,
                !.tool_results = @ \o [i \in 1..(n - ch.k + 1) |->
                    [tool_name |-> ch.tool_calls[ch.k + i - 1].tool_name,
                     result |-> [error |-> TRUE,
                                 text |-> "MCP connection not found"],
                     reasoning |-> ch.tool_calls[ch.k + i - 1].reasoning]]]]
         /\ pending_requests' = pend
         /\ calls' = cls
         /\ UNCHANGED nextId
    ELSE LET request(i) ==
                [websocket |-> conn[e].websocket, method |-> "tools/call",
                 params |-> [name |-> ch.tool_calls[i].tool_name,
                             arguments |-> ch.tool_calls[i].tool_args],
                 status |-> "waiting", ret |-> None]
             pending == [state |-> "pending", value |-> None] IN
         IF ch.k < n
         THEN /\ nextId + 1 <= MaxIds
              /\ pending_requests' =
                    [x \in DOMAIN pend \cup {nextId, nextId + 1} |->
                        IF x \in {nextId, nextId + 1} THEN pending ELSE pend[x]]
              /\ calls' = [cls EXCEPT ![nextId] = request(ch.k),
                                      ![nextId + 1] = request(ch.k + 1)]
              /\ nextId' = nextId + 2
              /\ chat' = [chat EXCEPT ![c] =
                            [ch EXCEPT !.pc = "tools/call", !.call = nextId]]
         ELSE /\ nextId <= MaxIds
              /\ pending_requests' =
                    [x \in DOMAIN pend \cup {nextId} |->
                        IF x = nextId THEN pending ELSE pend[x]]
              /\ calls' = [cls EXCEPT ![nextId] = request(ch.k)]
              /\ nextId' = nextId + 1
              /\ chat' = [chat EXCEPT ![c] =
                            [ch EXCEPT !.pc = "tools/call", !.call = nextId]]

\* The for loop over tool_calls from call ch.k on, up to its next suspension.
\* execute_tool looks the connection up again by user_id for every call; with
\* no entry it raises at once, and so do all the calls left. Otherwise it
\* issues tools/call on the websocket of the entry found.
Execute(c, ch, pend, cls) ==
    LET n == Len(ch.tool_calls)
        e == get_connection(ch.user_id) IN
    IF ch.k > n
    THEN /\ chat' = [chat EXCEPT ![c] = [ch EXCEPT !.pc = "synthesize"]]
         /\ pending_requests' = pend
         /\ calls' = cls
         /\ UNCHANGED nextId
    ELSE IF e = NoEntry
    THEN /\ chat' = [chat EXCEPT ![c] = [ch EXCEPT
                !.pc = "synthesize", !.k = n + 1,
                !.tool_results = @ \o [i \in 1..(n - ch.k + 1) |->
                    ToolError(ch.tool_calls[ch.k + i - 1],
                              "MCP connection not found")]]]
         /\ pending_requests' = pend
         /\ calls' = cls
         /\ UNCHANGED nextId
    ELSE \E sent \in SendTextOutcomes(conn[e].websocket) :
         /\ Issue(pend, cls, conn[e].websocket, "tools/call",
                  Params(ch.tool_calls[ch.k].tool_name,
                         ch.tool_calls[ch.k].tool_args), sent)
         /\ chat' = [chat EXCEPT ![c] =
                IF sent
                THEN [ch EXCEPT !.pc = "tools/call", !.call = nextId]
                ELSE [ch EXCEPT
                        !.pc = IF ch.k = n THEN "synthesize" ELSE "execute",
                        !.k = ch.k + 1,
                        !.tool_results = Append(@, ToolError(ch.tool_calls[ch.k],
                            ToolExecutionFailed("send_text failed")))]]

\* The first get_llm_response_with_tools call ends: it raises (HTTP 500), or
\* returns a text, or returns tool calls (one of `lists`).
ChatDecide(c, lists) ==
    /\ chat[c].pc = "decide"
    /\ \E llm_response \in DecideOutcomes(lists) :
        LET input == LLMInput(Query, conn[chat[c].connection].available_tools,
                              chat[c].conversation_history, <<>>) IN
        IF llm_response.type = "raise"
        THEN /\ chat' = [chat EXCEPT ![c] = Finished]
             /\ response' = [HTTPException(c, chat[c].user_id, 500,
                                           Detail(500), 1)
                                EXCEPT !.llm_input = input]
             /\ UNCHANGED <<pending_requests, calls, nextId>>
        ELSE IF IsToolUse(llm_response)
        THEN /\ Execute(c, [chat[c] EXCEPT
                                !.llm_type = llm_response.type,
                                !.tool_calls = llm_response.tool_calls, !.k = 1],
                        pending_requests, calls)
             /\ UNCHANGED response
        ELSE /\ chat' = [chat EXCEPT ![c] = Finished]
             /\ response' = [NoResponse EXCEPT
                                !.chat = c, !.user_id = chat[c].user_id,
                                !.status = 200,
                                !.response = llm_response.content,
                                !.llm = 1, !.llm_input = input,
                                !.llm_response = llm_response]
             /\ UNCHANGED <<pending_requests, calls, nextId>>
    /\ UNCHANGED <<active_connections, conn, ws, open, inbox, frames, delivered,
                   crashes>>

\* After a send_text that raised, the loop goes on with the next call.
ChatExecute(c) ==
    /\ chat[c].pc = "execute"
    /\ Execute(c, chat[c], pending_requests, calls)
    /\ UNCHANGED <<active_connections, conn, ws, open, inbox, frames, delivered,
                   crashes, response>>

\* The tools/call request of execute_tool returns or raises: the result is
\* appended, and the loop goes on.
ToolReturns(c) ==
    /\ chat[c].pc = "tools/call"
    /\ CanResume(chat[c].call)
    /\ LET id == chat[c].call
           tc == chat[c].tool_calls[chat[c].k]
           r == IF pending_requests[id].state = "result"
                THEN ToolResult(tc, ContentOf(pending_requests[id].value))
                ELSE ToolError(tc, ToolExecutionFailed(pending_requests[id].value))
       IN Execute(c, [chat[c] EXCEPT !.k = @ + 1,
                                     !.tool_results = Append(@, r)],
                  Finally(id), [calls EXCEPT ![id] = Resumed(id)])
    /\ UNCHANGED <<active_connections, conn, ws, open, inbox, frames, delivered,
                   crashes, response>>

\* The tools/call request times out.
ToolTimeout(c) ==
    /\ chat[c].pc = "tools/call"
    /\ CanTimeOut(chat[c].call)
    /\ LET id == chat[c].call
           tc == chat[c].tool_calls[chat[c].k]
           r == ToolError(tc, ToolExecutionFailed(TimedOut("tools/call")))
       IN Execute(c, [chat[c] EXCEPT !.k = @ + 1,
                                     !.tool_results = Append(@, r)],
                  Finally(id), [calls EXCEPT ![id] = Expired(id)])
    /\ UNCHANGED <<active_connections, conn, ws, open, inbox, frames, delivered,
                   crashes, response>>

\* The second get_llm_response_with_tools call ends. It is not in a try
\* block: when it raises, or returns tool calls (final_response["content"]
\* is a KeyError then), the exception leaves handle_chat.
ChatSynthesize(c) ==
    /\ chat[c].pc = "synthesize"
    /\ chat' = [chat EXCEPT ![c] = Finished]
    /\ \E final_response \in SynthesizeOutcomes :
        LET input == LLMInput(AllToolsExecuted,
                              conn[chat[c].connection].available_tools,
                              chat[c].conversation_history,
                              chat[c].tool_results) IN
        IF final_response.type = "text"
        THEN response' = [NoResponse EXCEPT
                !.chat = c, !.user_id = chat[c].user_id, !.status = 200,
                !.response = final_response.content,
                !.tools_used = [i \in DOMAIN chat[c].tool_results |->
                                    chat[c].tool_results[i].tool_name],
                !.tool_results = chat[c].tool_results, !.llm = 2,
                !.llm_input = input, !.llm_response = final_response]
        ELSE response' = [NoResponse EXCEPT
                !.chat = c, !.user_id = chat[c].user_id, !.status = 500,
                !.exception = IF final_response.type = "raise"
                              THEN "LLM raised" ELSE "KeyError",
                !.llm = 2, !.llm_input = input,
                !.llm_response = final_response]
    /\ UNCHANGED <<active_connections, conn, pending_requests, calls, nextId,
                   ws, open, inbox, frames, delivered, crashes>>

\* ------------------------------------------------------------- the remotes
\* The remote of w writes frame m. A read loop that is suspended in
\* receive_text takes the frame and handles it; otherwise the frame is
\* buffered on the transport. (Whatever runs between the arrival of a frame
\* and a waiting read loop's handling of it could as well run before the
\* arrival, so the two are one step.)
RemoteSend(w, m) ==
    /\ open[w]
    /\ frames < MaxFrames
    /\ frames' = frames + 1
    /\ IF ws[w].pc = "reading" /\ inbox[w] = <<>>
       THEN /\ Handle(w, m)
            /\ UNCHANGED inbox
       ELSE /\ Len(inbox[w]) < MaxInbox
            /\ inbox' = [inbox EXCEPT ![w] = Append(inbox[w], m)]
            /\ UNCHANGED <<pending_requests, ws, open, delivered, crashes>>
    /\ UNCHANGED <<active_connections, conn, calls, nextId, chat, response>>

RemoteClose(w) ==
    /\ open[w]
    /\ open' = [open EXCEPT ![w] = FALSE]
    /\ UNCHANGED <<active_connections, conn, pending_requests, calls, nextId,
                   ws, inbox, frames, delivered, crashes, chat, response>>

\* ------------------------------------------------------------------- Init
Init ==
    /\ active_connections = [u \in Users |-> NoEntry]
    /\ conn = [w \in W |-> MCPConnection(0, None)]
    /\ pending_requests = [i \in {} |-> None]
    /\ calls = [i \in Ids |-> NoCall]
    /\ nextId = 1
    /\ ws = [w \in W |-> [pc |-> "idle", user_id |-> None, call |-> 0,
                          handshake |-> "none"]]
    /\ open = [w \in W |-> FALSE]
    /\ inbox = [w \in W |-> <<>>]
    /\ frames = 0
    /\ delivered = [i \in Ids |-> NoFrame]
    /\ crashes = [w \in W |-> None]
    /\ chat = [c \in Chats |-> NoChat]
    /\ response = NoResponse

\* ------------------------------------------------------------------- Next
\* The connection core from a cold start: endpoints connect, run the
\* handshake and read.
Next ==
    \/ \E w \in W, u \in Users : Accept(w, u)
    \/ \E w \in W : Register(w)
    \/ \E w \in W : InitializeReturns(w)
    \/ \E w \in W : HandshakeRaises(w)
    \/ \E w \in W : HandshakeTimeout(w)
    \/ \E w \in W : ToolsListReturns(w)
    \/ \E w \in W : Receive(w)
    \/ \E w \in W : Disconnect(w)
    \/ \E w \in W, m \in JunkFrames \cup ResponseFrames : RemoteSend(w, m)
    \/ \E w \in W : RemoteClose(w)

Spec == Init /\ [][Next]_vars

\* The chat loop. SpecChat and SpecPair start from the state in which the endpoints have finished their
\* handshakes and are reading: the handshake of endpoint 1 (user u1) has timed
\* out, the handshake of endpoint 2 (user u2) has succeeded. Spec reaches this
\* state of the program (ChatReady); the request ids and the frame count start
\* afresh.
ReadyConn ==
    [w \in W |->
        CASE w = 1 -> MCPConnection(1, "u1")
          [] w = 2 -> [MCPConnection(2, "u2") EXCEPT
                        !.available_tools = ToolsOf("r1"),
                        !.session_initialized = TRUE]
          [] OTHER -> MCPConnection(0, None)]

ReadyWs ==
    [w \in W |->
        CASE w = 1 -> [pc |-> "reading", user_id |-> "u1", call |-> 0,
                       handshake |-> "failed"]
          [] w = 2 -> [pc |-> "reading", user_id |-> "u2", call |-> 0,
                       handshake |-> "done"]
          [] OTHER -> [pc |-> "idle", user_id |-> None, call |-> 0,
                       handshake |-> "none"]]

ChatReady ==
    /\ active_connections = [u \in Users |-> IF u = "u1" THEN 1 ELSE 2]
    /\ conn = ReadyConn
    /\ [w \in W |-> [ws[w] EXCEPT !.call = 0]] = ReadyWs
    /\ pending_requests = [i \in {} |-> None]
    /\ open = [w \in W |-> w <= 2]
    /\ inbox = [w \in W |-> <<>>]

InitChat ==
    /\ active_connections = [u \in Users |-> IF u = "u1" THEN 1 ELSE 2]
    /\ conn = ReadyConn
    /\ ws = ReadyWs
    /\ pending_requests = [i \in {} |-> None]
    /\ open = [w \in W |-> w <= 2]
    /\ inbox = [w \in W |-> <<>>]
    /\ chat = [c \in Chats |-> NoChat]
    /\ response = NoResponse
    /\ calls = [i \in Ids |-> NoCall]
    /\ nextId = 1
    /\ frames = 0
    /\ delivered = [i \in Ids |-> NoFrame]
    /\ crashes = [w \in W |-> None]

\* One chat request, with up to MaxCalls tool calls.
NextChat ==
    \/ \E w \in W : Disconnect(w)
    \/ \E w \in W, m \in JunkFrames \cup ResponseFrames : RemoteSend(w, m)
    \/ \E w \in W : RemoteClose(w)
    \/ \E u \in Users : ChatStart(1, u)
    \/ ChatDecide(1, ToolCallLists)
    \/ ChatExecute(1)
    \/ ToolReturns(1)
    \/ ToolTimeout(1)
    \/ ChatSynthesize(1)

SpecChat == InitChat /\ [][NextChat]_vars

\* The chat loop with the event loop's scheduling: a task whose await can
\* return is resumed, the timer of wait_for fires after 30 seconds unless the
\* future is done before, and a call of the decision function ends (the HTTP
\* client gives up after its own timeout). Nothing is assumed of the remotes.
SpecChatLive ==
    /\ InitChat
    /\ [][NextChat]_vars
    /\ WF_vars(ChatDecide(1, ToolCallLists))
    /\ WF_vars(ChatExecute(1))
    /\ WF_vars(ToolReturns(1))
    /\ WF_vars(ToolTimeout(1))
    /\ WF_vars(ChatSynthesize(1))

\* Concurrent chat requests, with one tool call each.
NextPair ==
    \/ \E w \in W : Disconnect(w)
    \/ \E w \in W, m \in JunkFrames \cup ResponseFrames : RemoteSend(w, m)
    \/ \E w \in W : RemoteClose(w)
    \/ \E c \in Chats, u \in Users : ChatStart(c, u)
    \/ \E c \in Chats : ChatDecide(c, {<<ToolCall(1)>>})
    \/ \E c \in Chats : ToolReturns(c)
    \/ \E c \in Chats : ToolTimeout(c)
    \/ \E c \in Chats : ChatSynthesize(c)

SpecPair == InitChat /\ [][NextPair]_vars

\* The remote of an ended endpoint connects again: a new invocation of
\* websocket_endpoint. It takes the place of the ended one, of which nothing
\* is left: no registry entry holds its connection, no chat request holds it
\* and no request waits on its transport.
Reconnect(w, u) ==
    /\ ws[w].pc = "disconnected"
    /\ Cardinality({ i \in Ids : calls[i].method = "initialize" })
            + Cardinality({ v \in W : ws[v].pc = "accepted" }) < MaxReconnects
    /\ \A v \in Users : active_connections[v] # w
    /\ \A c \in Chats : chat[c].connection # w
    /\ \A i \in Ids : calls[i].status = "waiting" => calls[i].websocket # w
    /\ ws' = [ws EXCEPT ![w] = [pc |-> "accepted", user_id |-> u, call |-> 0,
                                handshake |-> "none"]]
    /\ open' = [open EXCEPT ![w] = TRUE]
    /\ UNCHANGED <<active_connections, conn, pending_requests, calls, nextId,
                   inbox, frames, delivered, crashes, chat, response>>

\* Reconnection: from the state in which both endpoints are reading, remotes
\* close their transports and connect again, for either user.
NextReconnect ==
    \/ \E w \in W : Disconnect(w)
    \/ \E w \in W, m \in JunkFrames \cup ResponseFrames : RemoteSend(w, m)
    \/ \E w \in W : RemoteClose(w)
    \/ \E w \in W, u \in Users : Reconnect(w, u)
    \/ \E w \in W : Register(w)
    \/ \E w \in W : InitializeReturns(w)
    \/ \E w \in W : HandshakeRaises(w)
    \/ \E w \in W : HandshakeTimeout(w)
    \/ \E w \in W : ToolsListReturns(w)
    \/ \E w \in W : Receive(w)

SpecReconnect == InitChat /\ [][NextReconnect]_vars

\* Reconnection while a chat request is served.
NextReplace ==
    \/ \E w \in W : Disconnect(w)
    \/ \E w \in W, m \in JunkFrames \cup ResponseFrames : RemoteSend(w, m)
    \/ \E w \in W : RemoteClose(w)
    \/ \E w \in W, u \in Users : Reconnect(w, u)
    \/ \E w \in W : Register(w)
    \/ \E w \in W : InitializeReturns(w)
    \/ \E w \in W : HandshakeRaises(w)
    \/ \E w \in W : HandshakeTimeout(w)
    \/ \E w \in W : ToolsListReturns(w)
    \/ \E w \in W : Receive(w)
    \/ \E u \in Users : ChatStart(1, u)
    \/ ChatDecide(1, ToolCallLists)
    \/ ChatExecute(1)
    \/ ToolReturns(1)
    \/ ToolTimeout(1)
    \/ ChatSynthesize(1)

SpecReplace == InitChat /\ [][NextReplace]_vars

\* ================================================================= claims

\* C1 (as claimed): the read loop of a connection runs while its handshake
\* requests are in flight, so a handshake request that the remote has answered
\* with a success response on that same transport completes: no handshake is
\* given up on a timeout while the success response to the timed-out request
\* lies unread on the connection's own transport.
C1_AnsweredHandshakeCompletes ==
    \A w \in W :
        ~ /\ ws[w].handshake = "failed"
          /\ ws[w].call # 0
          /\ calls[ws[w].call].status = "timeout"
          /\ \E k \in DOMAIN inbox[w] :
                /\ inbox[w][k].kind = "object"
                /\ inbox[w][k].id = ws[w].call
                /\ inbox[w][k].error = Absent

\* C2 (as claimed): once the disconnect of a transport has been handled, no
\* request issued on that transport is still pending: all were rejected and
\* removed at the disconnect, none waits for its timeout.
C2_DisconnectRejectsPending ==
    \A i \in Ids :
        calls[i].status = "waiting" =>
            /\ ws[calls[i].websocket].pc # "disconnected"

\* C3: every send_request call that has returned has returned the result of
\* the response that carried its own id, and every call that has raised a
\* protocol error has raised the error of the response that carried its own
\* id, whatever the order in which the responses of concurrent calls arrived.
C3_OwnResponse ==
    \A i \in Ids :
        /\ calls[i].status = "returned" =>
                /\ delivered[i].kind = "object"
                /\ delivered[i].id = i
                /\ delivered[i].error = Absent
                /\ calls[i].ret = Result(delivered[i])
        /\ calls[i].status = "raised" =>
                /\ delivered[i].kind = "object"
                /\ delivered[i].id = i
                /\ delivered[i].error # Absent
                /\ calls[i].ret = MCPError(delivered[i])

\* C3 witness: two calls on the same transport were outstanding together, the
\* later one has already returned, and the earlier one has now been answered
\* with another result.
C3_Witness ==
    \E a \in Ids, b \in Ids :
        /\ a < b
        /\ calls[a].websocket = calls[b].websocket
        /\ calls[b].status = "returned"
        /\ CanResume(a)
        /\ pending_requests[a].state = "result"
        /\ pending_requests[a].value # calls[b].ret
        /\ pending_requests[a].value = Result(delivered[a])

\* C4: a call that has timed out has failed with the timeout error of its
\* method, its id is not in pending_requests, and handle_response applied to
\* any response carrying that id raises nothing and leaves pending_requests
\* as it is.
C4_TimeoutLeavesNothing ==
    \A i \in Ids :
        calls[i].status = "timeout" =>
            /\ i \notin DOMAIN pending_requests
            /\ calls[i].ret = TimedOut(calls[i].method)
            /\ \A m \in ResponseFrames :
                    m.id = i => handle_response(m) =
                                    [raised |-> None, pending |-> pending_requests]

\* C4 witness: a response carrying the id of a timed-out call has been
\* handled by a read loop, and no read loop has ended on an exception.
C4_Witness ==
    \E i \in Ids :
        /\ calls[i].status = "timeout"
        /\ delivered[i].kind = "object"
        /\ \A w \in W : crashes[w] = None
        /\ \E w \in W : ws[w].pc = "reading"

\* C5 (as claimed): pending_requests holds only ids of send_request calls that
\* are still in flight.
C5_PendingOnlyInFlight ==
    \A i \in DOMAIN pending_requests : calls[i].status = "waiting"

\* C6 (as claimed): a response whose id is unknown or belongs to a request
\* that is already resolved or rejected is discarded: no read loop ends on the
\* exception of a second resolution.
C6_DuplicateDiscarded ==
    \A w \in W : crashes[w] # "InvalidStateError"

\* C7 (as claimed): no frame that is not a message object ends the read loop.
C7_MalformedFrameNotFatal ==
    \A w \in W : crashes[w] # "TypeError"

\* C8 (as claimed): a read loop that has ended has ended on a disconnect, and
\* the registry no longer holds the entry of its connection.
C8_EndedLoopUnregistered ==
    \A w \in W :
        ws[w].pc \in {"disconnected", "crashed"} =>
            /\ ws[w].pc = "disconnected"
            /\ active_connections[ws[w].user_id] # w

\* C9 (as claimed): a connection whose handshake has failed stays not ready
\* with its catalog unchanged; tools/list follows only an initialize that
\* returned; and no connection sends initialize twice.
C9_FailedHandshakeAbandoned ==
    \A w \in W :
        /\ ws[w].handshake = "failed" =>
                /\ ~conn[w].session_initialized
                /\ conn[w].available_tools = EmptyList
        /\ \A i \in Ids :
                (calls[i].websocket = w /\ calls[i].method = "tools/list") =>
                    \E j \in 1..(i - 1) :
                        /\ calls[j].websocket = w
                        /\ calls[j].method = "initialize"
                        /\ calls[j].status = "returned"
        /\ Cardinality({ i \in Ids : calls[i].websocket = w
                                       /\ calls[i].method = "initialize" }) <= 1

\* The first step of chat request c, made for user u.
ChatStarts(c, u) ==
    /\ chat[c].pc = "idle"
    /\ chat'[c].pc # "idle"
    /\ u = IF chat'[c].pc = "finished" THEN response'.user_id
           ELSE chat'[c].user_id

\* Chat request c fails in this step, with no call of the decision function
\* and no request issued.
FailsAtOnce(c, status, detail) ==
    /\ chat'[c] = Finished
    /\ response'.chat = c
    /\ response'.status = status
    /\ response'.detail = detail
    /\ response'.llm = 0
    /\ UNCHANGED <<pending_requests, calls, nextId>>

\* C10: a chat request for a user without registry entry fails at once with
\* 404 "MCP connection not found", and one for a user whose entry is not
\* initialized fails at once with 400 "MCP session not initialized".
C10_ChatPreconditions ==
    [][\A c \in Chats, u \in Users :
        ChatStarts(c, u) =>
            /\ active_connections[u] = NoEntry =>
                    FailsAtOnce(c, 404, "MCP connection not found")
            /\ (/\ active_connections[u] # NoEntry
                 /\ ~conn[active_connections[u]].session_initialized) =>
                    FailsAtOnce(c, 400, "MCP session not initialized")]_vars

\* C10 witness: a chat request has failed with 404 for a user who has no
\* entry, while the other user's entry is there and not initialized.
C10_Witness ==
    /\ response.status = 404
    /\ response.llm = 0
    /\ active_connections[response.user_id] = NoEntry
    /\ \E u \in Users :
            /\ active_connections[u] # NoEntry
            /\ ~conn[active_connections[u]].session_initialized

\* The names of the tool calls in a list, in its order.
NamesOf(list) == [i \in DOMAIN list |-> list[i].tool_name]

\* C11: in every step of a chat request's tool loop the results collected so
\* far stay as they are and one result per call handled is appended, in the
\* order of tool_calls; the result of a send_request call that did not return
\* carries the error marker, and the loop goes on with the next call; the loop
\* is left only when every requested call has its result; and the response
\* built from the synthesized answer lists all the results, tools_used naming
\* the calls in that same order, the second decision call having been given
\* all of them.
C11_OneResultPerCall ==
    [][\A c \in Chats :
        /\ (chat[c].pc \in {"decide", "execute", "tools/call"}
              /\ chat'[c].pc \in {"execute", "tools/call", "synthesize"}) =>
                /\ \A i \in DOMAIN chat[c].tool_results :
                        /\ i \in DOMAIN chat'[c].tool_results
                        /\ chat'[c].tool_results[i] = chat[c].tool_results[i]
                /\ Len(chat'[c].tool_results) = chat'[c].k - 1
                /\ NamesOf(chat'[c].tool_results) =
                        SubSeq(NamesOf(chat'[c].tool_calls), 1, chat'[c].k - 1)
                /\ chat'[c].pc = "synthesize" =>
                        Len(chat'[c].tool_results) = Len(chat'[c].tool_calls)
                /\ (chat[c].pc = "tools/call" /\ chat'[c].k > chat[c].k) =>
                        chat'[c].tool_results[chat[c].k].result.error =
                            (calls'[chat[c].call].status # "returned")
        /\ (chat[c].pc = "synthesize" /\ response'.status = 200) =>
                /\ response'.tool_results = chat[c].tool_results
                /\ response'.tools_used = NamesOf(chat[c].tool_calls)
                /\ response'.llm_input.tool_results = chat[c].tool_results]_vars

\* C11 witness: two tool calls were requested, the first failed, the second
\* succeeded, and the answer was synthesized.
C11_Witness ==
    /\ response.status = 200
    /\ response.llm = 2
    /\ Len(response.tool_results) = 2
    /\ response.tool_results[1].result.error
    /\ ~response.tool_results[2].result.error
    /\ response.tools_used = <<"search", "fetch">>

\* C12: the request a chat request waits for is a tools/call request whose
\* params are {name: tool_name, arguments: tool_args} of the tool call at
\* hand; the second decision call is given all the collected results and the
\* conversation history of the request; and the response of a chat request
\* that took the tool branch is the text the second call returned.
C12_ToolCallAndSynthesis ==
    [][\A c \in Chats :
        /\ chat'[c].pc = "tools/call" =>
                /\ calls'[chat'[c].call].method = "tools/call"
                /\ calls'[chat'[c].call].params =
                        [name |-> chat'[c].tool_calls[chat'[c].k].tool_name,
                         arguments |-> chat'[c].tool_calls[chat'[c].k].tool_args]
        /\ (chat[c].pc = "synthesize" /\ chat'[c].pc = "finished") =>
                /\ response'.chat = c
                /\ response'.llm = 2
                /\ response'.llm_input.tool_results = chat[c].tool_results
                /\ response'.llm_input.conversation_history =
                        chat[c].conversation_history
                /\ response'.status = 200 =>
                        /\ response'.llm_response.type = "text"
                        /\ response'.response = response'.llm_response.content]_vars

\* C12 witness: the call {search, q=x} went out as {name: search, arguments:
\* q=x} and returned, a second call returned too, and the response is the
\* text synthesized from both results.
C12_Witness ==
    /\ response.status = 200
    /\ response.response = "answer"
    /\ Len(response.llm_input.tool_results) = 2
    /\ \A i \in 1..2 : ~response.llm_input.tool_results[i].result.error
    /\ response.llm_input.conversation_history \in Histories
    /\ \E i \in Ids :
            /\ calls[i].status = "returned"
            /\ calls[i].params = [name |-> "search", arguments |-> "q=x"]

\* C13: a chat request goes on to tool calls and to a second decision call
\* only when its first decision call returned tool calls; when that call
\* returned a text the request ends in that step: the response is that text
\* with no tool-usage record, the decision function has been called once, and
\* no request has been issued.
C13_DirectAnswerTerminal ==
    [][\A c \in Chats :
        /\ chat'[c].pc \in {"execute", "tools/call", "synthesize"} =>
                chat'[c].llm_type = "tool_use"
        /\ (chat[c].pc = "decide" /\ chat'[c].pc = "finished"
                /\ response'.status = 200) =>
                /\ response'.chat = c
                /\ response'.llm_response.type = "text"
                /\ response'.response = response'.llm_response.content
                /\ response'.tools_used = None
                /\ response'.tool_results = <<>>
                /\ response'.llm = 1
                /\ UNCHANGED <<pending_requests, calls, nextId>>]_vars

\* C13 witness: a chat request has been answered directly.
C13_Witness ==
    /\ response.status = 200
    /\ response.response = "hello"
    /\ response.llm = 1
    /\ response.tools_used = None
    /\ \A i \in Ids : calls[i].status = "unused"

\* C14 (as claimed): a failure or a malformed output of the decision function
\* ends the chat request with an error description that handle_chat raises
\* itself: no exception of the first or of the second decision call leaves
\* handle_chat unhandled.
C14_DecisionFailureRecoverable ==
    response.llm >= 1 => response.exception = None

\* C15: the step in which an endpoint registers leaves the registry holding,
\* for its user, a fresh connection with the endpoint's transport, an empty
\* catalog and not initialized, whatever entry the user had before; the
\* entries of the other users and all other connection objects are unchanged.
C15_RegisterFresh ==
    [][\A w \in W :
        (ws[w].pc = "accepted" /\ ws'[w].pc # "accepted") =>
            LET u == ws[w].user_id IN
            /\ active_connections'[u] = w
            /\ conn'[w] = [websocket |-> w, user_id |-> u,
                           available_tools |-> EmptyList,
                           session_initialized |-> FALSE]
            /\ \A v \in Users \ {u} :
                    active_connections'[v] = active_connections[v]
            /\ \A x \in W \ {w} : conn'[x] = conn[x]]_vars

\* C15 witness: the entry of a user whose connection was initialized, with a
\* catalog, has been replaced by a fresh one.
C15_Witness ==
    \E w \in W, x \in W :
        /\ w # x
        /\ conn[x].user_id = conn[w].user_id
        /\ conn[x].session_initialized
        /\ conn[x].available_tools # EmptyList
        /\ active_connections[conn[w].user_id] = w
        /\ ws[w].pc = "initialize"
        /\ ~conn[w].session_initialized
        /\ conn[w].available_tools = EmptyList

\* C16 (as claimed): handle_response removes the entry it resolves or
\* rejects: pending_requests never holds a future that is done, not even
\* before the task suspended in send_request has resumed.
C16_HandledResponseRemoved ==
    \A i \in DOMAIN pending_requests :
        delivered[i].kind = "object" => pending_requests[i].state = "pending"

\* The tools/call requests issued so far, and those not completed yet.
ToolRequests == { i \in Ids : calls[i].method = "tools/call" }
ToolRequestsOpen == { i \in ToolRequests : calls[i].status = "waiting" }

\* C17: the tool calls of a chat request are made one after the other, in
\* the order of tool_calls: at most one tools/call request of the request is
\* waiting at any time, and a step writes at most one tools/call request,
\* when all the tools/call requests written before have completed; the n-th
\* request written is the one for the n-th call, and the results of the
\* calls before it have been collected. (Under SpecChat there is one chat
\* request: every tools/call request is its own.)
C17_SequentialToolCalls ==
    [][/\ Cardinality(ToolRequestsOpen') <= 1
       /\ nextId' # nextId =>
            /\ nextId' = nextId + 1
            /\ calls'[nextId].method = "tools/call"
            /\ \A j \in ToolRequests : calls'[j].status # "waiting"
            /\ \E c \in Chats :
                LET n == Cardinality(ToolRequests) + 1 IN
                /\ n \in DOMAIN chat'[c].tool_calls
                /\ calls'[nextId].params.name = chat'[c].tool_calls[n].tool_name
                /\ Len(chat'[c].tool_results) =
                        IF calls'[nextId].status = "send_failed" THEN n
                        ELSE n - 1]_vars

\* C17 witness: the second tools/call request of a chat request is waiting,
\* and the first has completed.
C17_Witness ==
    \E i \in ToolRequests, j \in ToolRequestsOpen :
        /\ i < j
        /\ calls[i].status \in {"returned", "raised", "timeout"}
        /\ calls[i].params.name = "search"
        /\ calls[j].params.name = "fetch"

C19_RemovedByOwnTransport ==
    [][\A u \in Users :
        (active_connections[u] # NoEntry /\ active_connections'[u] = NoEntry) =>
            /\ ws[active_connections[u]].pc = "reading"
            /\ ws'[active_connections[u]].pc = "disconnected"]_vars

\* The initialize and the tools/list call made on the transport of w have
\* both returned a result.
HandshakeSucceeded(w) ==
    /\ \E i \in Ids : /\ calls[i].websocket = w
                      /\ calls[i].method = "initialize"
                      /\ calls[i].status = "returned"
    /\ \E i \in Ids : /\ calls[i].websocket = w
                      /\ calls[i].method = "tools/list"
                      /\ calls[i].status = "returned"

\* C20 (as claimed): the connection of a registry entry is initialized, or
\* has a catalog, only if the initialize and the tools/list call both
\* succeeded on its own transport.
C20_ReadyByOwnHandshake ==
    \A u \in Users :
        LET w == active_connections[u] IN
        (w # NoEntry /\ (conn[w].session_initialized
                            \/ conn[w].available_tools # EmptyList)) =>
            HandshakeSucceeded(w)

\* C22 (as claimed): a request is resolved or rejected only by a response
\* that was read from the inbound stream of the transport it was sent on.
C22_ResolvedByOwnStream ==
    \A i \in Ids :
        (\/ calls[i].status \in {"returned", "raised"}
         \/ (i \in DOMAIN pending_requests
                /\ pending_requests[i].state # "pending")) =>
            delivered[i].via = calls[i].websocket

\* C21 (as claimed): a tools/call request is written only to the transport
\* of a connection that is initialized at that moment.
C21_ToolCallOnReadyTransport ==
    [][\A i \in Ids :
        (calls[i].status = "unused" /\ calls'[i].method = "tools/call") =>
            conn[calls'[i].websocket].session_initialized]_vars

====
